---- MODULE Spec2Model ----
(***************************************************************************)
(* Model of FirstSourceScrapingCode.py: the export-and-paginate session    *)
(* (download_and_process_data), the orchestrator (main) and the file       *)
(* pipeline (rename, move, page-combine, state-consolidate).               *)
(*                                                                         *)
(* Text is a sequence of one-character strings, so that sanitising,        *)
(* number formatting/parsing and glob matching are computed, not assumed.  *)
(* A file is fs[<<dir, name>>] = [rows, mtime, ok]; dir = <<>> is the      *)
(* download directory itself.  A row is [q, p, i]: row i of page p served  *)
(* for query number q.                                                     *)
(***************************************************************************)
EXTENDS Integers, Sequences, FiniteSets, TLC

VARIABLES
    fs,         \* files: path <<dir, name>> -> [rows, mtime, ok]
    dirs,       \* names of the sub-directories of the download directory
    scan,       \* directory enumeration order of the file system (fixed per run)
    now,        \* wall clock in seconds, as far as the renames tell it apart
    inflight,   \* browser downloads started and not yet written to disk
    pc,         \* position of main
    si,         \* index of the state main is at (in the list of the phase)
    bi,         \* index of the business type main is at
    sess,       \* the running session of download_and_process_data
    outcome,    \* per started query: what main printed for it
    trace,      \* history of the run (queries started, consolidations, ...)
    lastRun     \* history: the last direct call of combine / consolidate

vars == <<fs, dirs, scan, now, inflight, pc, si, bi, sess, outcome, trace,
          lastRun>>

-----------------------------------------------------------------------------
(* Bounds *)

\* pages the portal serves at most for one query
MaxPages == 2
\* direct pipeline calls: page files captured at most
MaxPipeFiles == 3
MaxPipeRows == 8
\* direct pipeline calls on files that go bad: page files captured at most
MaxReadFiles == 2
\* format_filename on every text of at most MaxTextLen characters
MaxTextLen == 3

-----------------------------------------------------------------------------
(* The configured lists of main (abridged: the first filtered state, which *)
(* carries the skipped pair, one more filtered state, the business type of *)
(* the skipped pair and one more, one unfiltered state), and the queries   *)
(* and page numbers of the direct pipeline calls                           *)

None == <<>>

business_filtered_states ==
    << <<"M","a","h","a","r","a","s","h","t","r","a">>,
       <<"G","u","j","a","r","a","t">> >>

other_states ==
    << <<"D","a","m","a","n"," ","&"," ","D","i","u">> >>

business_types ==
    << <<"B","u","s","i","n","e","s","s"," ","S","e","r","v","i","c","e","s">>,
       <<"T","r","a","d","i","n","g">> >>

PipeQueries ==
    << [state |-> <<"D","a","m","a","n">>,
        business_type |-> <<"T","r","a","d","i","n","g">>],
       [state |-> <<"D","a","m","a","n"," ","&"," ","D","i","u">>,
        business_type |-> None] >>

PipePages == {2, 9, 10}

-----------------------------------------------------------------------------
(* Text *)

Alphabet ==
    <<" ","&","(",")",",","-",".","0","1","2","3","4","5","6","7","8","9",
      "A","B","C","D","E","F","G","H","I","J","K","L","M","N","O","P","Q",
      "R","S","T","U","V","W","X","Y","Z","_","a","b","c","d","e","f","g",
      "h","i","j","k","l","m","n","o","p","q","r","s","t","u","v","w","x",
      "y","z">>

Chars == {Alphabet[i] : i \in 1..Len(Alphabet)}

Ord == [c \in Chars |-> CHOOSE i \in 1..Len(Alphabet) : Alphabet[i] = c]

DigitChars == <<"0","1","2","3","4","5","6","7","8","9">>

IsDigit(c) == \E d \in 1..10 : DigitChars[d] = c

DigitVal(c) == (CHOOSE d \in 1..10 : DigitChars[d] = c) - 1

\* str.isalnum() on the characters of Alphabet
IsAlnum(c) == c \in Chars /\ (Ord[c] >= Ord["0"]) /\ c # "_"

RECURSIVE Concat(_)
Concat(ss) == IF ss = <<>> THEN <<>> ELSE Head(ss) \o Concat(Tail(ss))

\* str(n) for n >= 0
RECURSIVE IntToStr(_)
IntToStr(n) ==
    IF n < 10 THEN <<DigitChars[n + 1]>>
    ELSE IntToStr(n \div 10) \o <<DigitChars[(n % 10) + 1]>>

\* int(s) for a plain decimal s; -1 stands for ValueError
RECURSIVE DigitsVal(_)
DigitsVal(s) ==
    IF s = <<>> THEN 0
    ELSE 10 * DigitsVal(SubSeq(s, 1, Len(s) - 1)) + DigitVal(s[Len(s)])

StrToInt(s) ==
    IF s # <<>> /\ \A i \in 1..Len(s) : IsDigit(s[i]) THEN DigitsVal(s) ELSE -1

IsPrefix(p, s) == Len(p) <= Len(s) /\ SubSeq(s, 1, Len(p)) = p

IsSuffix(p, s) == Len(p) <= Len(s) /\ SubSeq(s, Len(s) - Len(p) + 1, Len(s)) = p

\* s.split(sub)[-1]
AfterLast(s, sub) ==
    LET at == {i \in 1..(Len(s) - Len(sub) + 1) : SubSeq(s, i, i + Len(sub) - 1) = sub}
    IN  IF at = {} THEN s
        ELSE LET i == CHOOSE j \in at : \A k \in at : k <= j
             IN  SubSeq(s, i + Len(sub), Len(s))

\* s.split(c)[0]
BeforeFirst(s, c) ==
    LET at == {i \in 1..Len(s) : s[i] = c}
    IN  IF at = {} THEN s
        ELSE SubSeq(s, 1, (CHOOSE j \in at : \A k \in at : j <= k) - 1)

Range(seq) == {seq[i] : i \in 1..Len(seq)}

\* lines 42-43 without the filter of line 43: every character is kept
format_filename_unstripped(text) ==
    Concat([i \in 1..Len(text) |->
                IF text[i] = " " THEN <<"_">>
                ELSE IF text[i] = "&" THEN <<"a","n","d">>
                ELSE <<text[i]>>])

\* text.replace(' ', '_').replace('&', 'and'), then keep c.isalnum() or c == '_'
format_filename(text) ==
    LET replaced == Concat([i \in 1..Len(text) |->
                        IF text[i] = " " THEN <<"_">>
                        ELSE IF text[i] = "&" THEN <<"a","n","d">>
                        ELSE <<text[i]>>])
    IN  SelectSeq(replaced, LAMBDA c : IsAlnum(c) \/ c = "_")

\* the names the run formats, and format_filename as a table over them
Texts ==
    Range(business_filtered_states) \cup Range(other_states) \cup Range(business_types)
        \cup {q.state : q \in Range(PipeQueries)}
        \cup {q.business_type : q \in Range(PipeQueries)}

formatted == [text \in Texts |-> format_filename(text)]

\* fnmatch of a name against  prefix*suffix
GlobMatch(prefix, suffix, name) ==
    /\ Len(name) >= Len(prefix) + Len(suffix)
    /\ IsPrefix(prefix, name)
    /\ IsSuffix(suffix, name)

DataCsv == <<"d","a","t","a",".","c","s","v">>
DotCsv == <<".","c","s","v">>
PageInfix == <<"_","p","a","g","e","_">>
PageSplit == <<"p","a","g","e","_">>
CombinedSuffix == <<"_","c","o","m","b","i","n","e","d",".","c","s","v">>
ConsolidatedSuffix == <<"_","c","o","n","s","o","l","i","d","a","t","e","d",".","c","s","v">>

\* mutant: strftime('%Y%m%d'), the same value all day
strftime_date(t) == IntToStr(1)

\* datetime.now().strftime('%Y%m%d%H%M%S'): digits, one value per second
strftime(t) == IntToStr(t)

-----------------------------------------------------------------------------
(* Names and layout *)

\* business_formatted = format_filename(business_type), computed only under
\* `if business_type:`
business_formatted(business_type) ==
    IF business_type # None THEN formatted[business_type] ELSE None

\* the f-strings over state_formatted (sf) and business_formatted (bf)
page_filename(sf, bf, page_number, timestamp) ==
    IF bf # None
    THEN sf \o <<"_">> \o bf \o PageInfix \o IntToStr(page_number) \o DotCsv
    ELSE sf \o <<"_">> \o timestamp \o DotCsv

directory_name(sf, bf) == IF bf # None THEN sf \o <<"_">> \o bf ELSE sf

\* the part of file_pattern before the *
pattern_prefix(sf, bf) ==
    IF bf # None THEN sf \o <<"_">> \o bf \o PageInfix ELSE sf \o <<"_">>

combined_name(sf, bf) == directory_name(sf, bf) \o CombinedSuffix

\* rename_downloaded_file: new_filename
new_filename(state_name, business_type, page_number, timestamp) ==
    page_filename(formatted[state_name], business_formatted(business_type),
                  page_number, timestamp)

\* move_files_to_directory / combine_csv_files: the directory of a query
target_directory(state_name, business_type) ==
    directory_name(formatted[state_name], business_formatted(business_type))

file_pattern(state_name, business_type) ==
    pattern_prefix(formatted[state_name], business_formatted(business_type))

output_filename(state_name, business_type) ==
    combined_name(formatted[state_name], business_formatted(business_type))

\* mutant: one consolidated file for all states
consolidated_filename_shared(state_formatted) == ConsolidatedSuffix

consolidated_filename(state_formatted) == state_formatted \o ConsolidatedSuffix

Root == <<>>

-----------------------------------------------------------------------------
(* Directory enumeration.  glob returns names in the order the file system *)
(* enumerates them: arbitrary, but the same for the same names.  The order *)
(* is  scan : by name, ascending or descending.                            *)

ScanOrders == [desc : BOOLEAN]

ScanRank(sc, c) == Ord[c]

LexLess(sc, a, b) ==
    LET differ == {i \in 1..Len(a) : i > Len(b) \/ a[i] # b[i]}
    IN  IF differ = {} THEN Len(a) < Len(b)
        ELSE LET i == CHOOSE j \in differ : \A k \in differ : j <= k
             IN  i <= Len(b) /\ ScanRank(sc, a[i]) < ScanRank(sc, b[i])

ScanBefore(sc, a, b) == IF sc.desc THEN LexLess(sc, b, a) ELSE LexLess(sc, a, b)

RECURSIVE Enumerate(_, _)
Enumerate(sc, names) ==
    IF names = {} THEN <<>>
    ELSE LET first == CHOOSE n \in names : \A m \in names \ {n} : ScanBefore(sc, n, m)
         IN  <<first>> \o Enumerate(sc, names \ {first})

FilesIn(f, dir) == {p[2] : p \in {q \in DOMAIN f : q[1] = dir}}

\* glob.glob(os.path.join(dir, prefix + '*' + suffix)) over the files of dir
glob(f, sc, dir, prefix, suffix) ==
    Enumerate(sc, {n \in FilesIn(f, dir) : GlobMatch(prefix, suffix, n)})

-----------------------------------------------------------------------------
(* File operations *)

Exists(f, path) == path \in DOMAIN f

WriteFile(f, path, rec) ==
    [p \in DOMAIN f \cup {path} |-> IF p = path THEN rec ELSE f[p]]

\* os.rename(src, dst), dst absent
MoveFile(f, src, dst) ==
    [p \in (DOMAIN f \ {src}) \cup {dst} |-> IF p = dst THEN f[src] ELSE f[p]]

\* the read loop without the try inside it: the first file that cannot be
\* read ends the loop, and what was read so far is what gets written
RECURSIVE read_until_failure(_, _)
read_until_failure(f, paths) ==
    IF paths = <<>> \/ ~f[Head(paths)].ok THEN <<>>
    ELSE f[Head(paths)].rows \o read_until_failure(f, Tail(paths))

\* pd.read_csv + pd.concat over the files in order; a file that cannot be read
\* raises inside the try and is skipped
RECURSIVE read_and_concat(_, _)
read_and_concat(f, paths) ==
    IF paths = <<>> THEN <<>>
    ELSE (IF f[Head(paths)].ok THEN f[Head(paths)].rows ELSE <<>>)
             \o read_and_concat(f, Tail(paths))

\* list.sort(key=...): stable, ascending; items are [name, key]
RECURSIVE InsertAscending(_, _)
InsertAscending(x, s) ==
    IF s = <<>> THEN <<x>>
    ELSE IF s[1].key <= x.key THEN <<s[1]>> \o InsertAscending(x, Tail(s))
    ELSE <<x>> \o s

RECURSIVE SortAscending(_)
SortAscending(s) ==
    IF s = <<>> THEN <<>>
    ELSE InsertAscending(s[Len(s)], SortAscending(SubSeq(s, 1, Len(s) - 1)))

\* list.sort(key=..., reverse=True): stable, descending
RECURSIVE InsertDescending(_, _)
InsertDescending(x, s) ==
    IF s = <<>> THEN <<x>>
    ELSE IF s[1].key >= x.key THEN <<s[1]>> \o InsertDescending(x, Tail(s))
    ELSE <<x>> \o s

RECURSIVE SortDescending(_)
SortDescending(s) ==
    IF s = <<>> THEN <<>>
    ELSE InsertDescending(s[Len(s)], SortDescending(SubSeq(s, 1, Len(s) - 1)))

NamesOf(items) == [i \in 1..Len(items) |-> items[i].name]

\* int(x.split('page_')[-1].split('.')[0]); the last 'page_' of a path that
\* matched ..._page_*.csv lies in its file name
\* (as a function of the names ..._page_N.csv of the configured texts)
PageNames ==
    {page_filename(formatted[st], formatted[bt], n, None) :
        st \in Texts, bt \in Texts \ {None}, n \in 1..(MaxPages + 1) \cup PipePages}

page_number_of ==
    [name \in PageNames |-> StrToInt(BeforeFirst(AfterLast(name, PageSplit), "."))]

page_sort_key(name) == page_number_of[name]

\* the page sort left out: the files stay in the order glob returned them
sort_by_page_unsorted(names) == names

\* csv_files.sort(key=lambda x: int(...))
sort_by_page(names) ==
    NamesOf(SortAscending([i \in 1..Len(names) |->
                [name |-> names[i], key |-> page_sort_key(names[i])]]))

\* csv_files.sort(key=os.path.getmtime, reverse=True)
sort_by_mtime(f, dir, names) ==
    NamesOf(SortDescending([i \in 1..Len(names) |->
                [name |-> names[i], key |-> f[<<dir, names[i]>>].mtime]]))

\* rename_downloaded_file: the path data.csv is renamed to at time t
rename_target(state_name, business_type, page_number, t) ==
    <<Root, new_filename(state_name, business_type, page_number, strftime(t))>>

\* mutant: no os.path.exists check, os.rename raises on the missing source
rename_raises_if_absent(f, state_name, business_type, page_number, t) ==
    \/ ~Exists(f, <<Root, DataCsv>>)
    \/ Exists(f, rename_target(state_name, business_type, page_number, t))

\* os.rename on the platform of D:\Downloads raises when the target exists
rename_raises(f, state_name, business_type, page_number, t) ==
    /\ Exists(f, <<Root, DataCsv>>)
    /\ Exists(f, rename_target(state_name, business_type, page_number, t))

rename_downloaded_file(f, state_name, business_type, page_number, t) ==
    LET new_file_path == rename_target(state_name, business_type, page_number, t)
    IN  IF Exists(f, <<Root, DataCsv>>) /\ ~Exists(f, new_file_path)
        THEN MoveFile(f, <<Root, DataCsv>>, new_file_path)
        ELSE f

\* move_files_to_directory: each os.rename is tried on its own; one that
\* raises (target exists) leaves its file where it is
move_files_to_directory(f, sc, state_name, business_type) ==
    LET sf     == formatted[state_name]
        bf     == business_formatted(business_type)
        target == directory_name(sf, bf)
        names  == glob(f, sc, Root, pattern_prefix(sf, bf), DotCsv)
        moved  == {names[i] : i \in {j \in 1..Len(names) :
                                        ~Exists(f, <<target, names[j]>>)}}
        gone   == {<<Root, n>> : n \in moved}
        come   == {<<target, n>> : n \in moved}
    IN  [p \in (DOMAIN f \ gone) \cup come |->
            IF p \in come THEN f[<<Root, p[2]>>] ELSE f[p]]

\* the write of lines 121-124 without the guard  if not combined_df.empty
combine_run_unguarded(f, sc, t, state_name, business_type) ==
    LET sf    == formatted[state_name]
        bf    == business_formatted(business_type)
        dir   == directory_name(sf, bf)
        found == glob(f, sc, dir, pattern_prefix(sf, bf), DotCsv)
        read  == IF business_type # None THEN sort_by_page(found)
                 ELSE sort_by_mtime(f, dir, found)
        rows  == read_and_concat(f, [i \in 1..Len(read) |-> <<dir, read[i]>>])
        out   == <<dir, combined_name(sf, bf)>>
    IN  [found |-> found,
         read  |-> read,
         rows  |-> rows,
         out   |-> out,
         fs    |-> WriteFile(f, out, [rows |-> rows, mtime |-> t, ok |-> TRUE])]

\* combine_csv_files, step by step: the glob (found), the sort (read),
\* the read loop (rows), the write when rows is not empty (fs)
combine_run(f, sc, t, state_name, business_type) ==
    LET sf    == formatted[state_name]
        bf    == business_formatted(business_type)
        dir   == directory_name(sf, bf)
        found == glob(f, sc, dir, pattern_prefix(sf, bf), DotCsv)
        read  == IF business_type # None THEN sort_by_page(found)
                 ELSE sort_by_mtime(f, dir, found)
        rows  == read_and_concat(f, [i \in 1..Len(read) |-> <<dir, read[i]>>])
        out   == <<dir, combined_name(sf, bf)>>
    IN  [found |-> found,
         read  |-> read,
         rows  |-> rows,
         out   |-> out,
         fs    |-> IF rows # <<>>
                   THEN WriteFile(f, out, [rows |-> rows, mtime |-> t, ok |-> TRUE])
                   ELSE f]

combine_csv_files(f, sc, t, state_name, business_type) ==
    combine_run(f, sc, t, state_name, business_type).fs

\* consolidate_state_files: business_type_folders (glob matches every entry
\* of the download directory, directories and files alike)
business_type_folders(f, ds, sc, state_formatted) ==
    LET pattern == state_formatted \o <<"_">>
    IN  Enumerate(sc, {n \in ds \cup FilesIn(f, Root) : GlobMatch(pattern, <<>>, n)})

\* a matched entry that is a file taken as an input itself
combined_files_with_entry(f, ds, sc, folder) ==
    IF folder \in ds
    THEN LET names == glob(f, sc, folder, <<>>, CombinedSuffix)
         IN  [i \in 1..Len(names) |-> <<folder, names[i]>>]
    ELSE << <<Root, folder>> >>

\* glob.glob(os.path.join(folder, "*_combined.csv")): empty when folder is a file
combined_files(f, ds, sc, folder) ==
    IF folder \in ds
    THEN LET names == glob(f, sc, folder, <<>>, CombinedSuffix)
         IN  [i \in 1..Len(names) |-> <<folder, names[i]>>]
    ELSE <<>>

\* consolidate_state_files, step by step: the folders (found), the combined
\* files in them (read), the read loop (rows), the write when rows is not
\* empty (fs); without folders it returns at line 140
consolidate_run(f, ds, sc, t, state_name) ==
    LET sf    == formatted[state_name]
        found == business_type_folders(f, ds, sc, sf)
        read  == Concat([i \in 1..Len(found) |-> combined_files(f, ds, sc, found[i])])
        rows  == read_and_concat(f, read)
        out   == <<Root, consolidated_filename(sf)>>
    IN  [found |-> found,
         read  |-> read,
         rows  |-> rows,
         out   |-> out,
         fs    |-> IF rows # <<>>
                   THEN WriteFile(f, out, [rows |-> rows, mtime |-> t, ok |-> TRUE])
                   ELSE f]

consolidate_state_files(f, ds, sc, t, state_name) ==
    consolidate_run(f, ds, sc, t, state_name).fs

-----------------------------------------------------------------------------
(* main *)

NF == Len(business_filtered_states)
NB == Len(business_types)
NO == Len(other_states)

\* if state == "Maharashtra" and business_type == "Business Services": continue
skip_pair(state, business_type) ==
    /\ state = <<"M","a","h","a","r","a","s","h","t","r","a">>
    /\ business_type = <<"B","u","s","i","n","e","s","s"," ","S","e","r","v","i","c","e","s">>

\* The queries main enumerates, in order: position (s, b) of the loops
Positions == {<<s, b>> : s \in 1..NF, b \in 1..NB} \cup {<<NF + s, 0>> : s \in 1..NO}

StateAt(pos) ==
    IF pos[1] <= NF THEN business_filtered_states[pos[1]] ELSE other_states[pos[1] - NF]

BusinessAt(pos) == IF pos[1] <= NF THEN business_types[pos[2]] ELSE None

Skipped(pos) == pos[1] <= NF /\ skip_pair(StateAt(pos), BusinessAt(pos))

\* the number a query's rows carry
QueryId(pos) == IF pos[1] <= NF THEN (pos[1] - 1) * NB + pos[2] ELSE NF * NB + pos[1] - NF

Here == <<si, bi>>

\* mutant: after a query the loops go on with the next state
NextPos_next_state(pos) == IF pos[1] < NF THEN <<pos[1] + 1, 1>> ELSE <<pos[1] + 1, 0>>

\* the loops' next position after the query at pos
NextPos(pos) == IF pos[1] <= NF THEN <<pos[1], pos[2] + 1>> ELSE <<pos[1] + 1, 0>>

\* mutant: the loop's except clause goes round again instead of breaking
after_loop_exception_continue == "AwaitingExport"

\* mutant: the loop's except clause re-raises
after_loop_exception_raise == "Raised"

\* the except clause around the pagination loop body (lines 226-228): break
after_loop_exception == "Terminated"

\* mutant: a Setup failure is handled like a pagination failure
after_setup_exception_break == "Terminated"

\* the except clause of download_and_process_data (lines 233-235): raise
after_setup_exception == "Raised"

\* mutant: no try around one query, its exception reaches the outer except
after_query_exception_abort == "abort"

\* the except clause around one query in main (lines 297-299, 313-315): continue
after_query_exception == "loop"

NoSession == [pc |-> "none", page_number |-> 0, shown |-> 0, iters |-> 0,
              exports |-> 0, nextFound |-> FALSE, ended |-> "none"]

NoOutcome == [started |-> 0, result |-> "none"]

\* history: how the query that ended last ended (kept until the next starts)
NoLast == [pos |-> <<0, 0>>, result |-> "none", ended |-> "none", exports |-> 0,
           iters |-> 0, nextFound |-> FALSE, moves |-> 0, combines |-> 0]

\* history of the run: whether a navigation failed, whether a query started
\* after that, and how often consolidate_state_files was called for the state
\* at each index of the two lists (filtered first)
NoTrace == [navFailed |-> FALSE, startedAfterNavFail |-> FALSE, last |-> NoLast,
            consolidated |-> [s \in 1..(NF + NO) |-> 0]]

NoDownload == [q |-> 0, p |-> 0]

NoRun == [op |-> "none"]

\* the steps of Setup that can raise (lines 167-191)
SetupSteps(business_type) ==
    (IF business_type # None THEN {"category_tab", "business_select"} ELSE {})
        \cup {"location_tab", "state_select", "submit"}

Init ==
    /\ fs = <<>>
    /\ dirs = {}
    /\ scan \in ScanOrders
    /\ now = 1
    /\ inflight = NoDownload
    /\ pc = "start"
    /\ si = 1
    /\ bi = 1
    /\ sess = NoSession
    /\ outcome = [pos \in Positions |-> NoOutcome]
    /\ trace = NoTrace
    /\ lastRun = NoRun

pipeVars == <<lastRun>>

\* lines 278-280: setup_driver, the first driver.get, the login prompt.  They
\* stand before the try: a failure leaves main with no driver.quit.
OpenPortal ==
    /\ pc = "start"
    /\ \E ok \in BOOLEAN :
        /\ pc' = IF ok THEN "loop" ELSE "crashed"
        /\ trace' = [trace EXCEPT !.navFailed = ~ok]
    /\ UNCHANGED <<fs, dirs, scan, now, inflight, si, bi, sess, outcome, pipeVars>>

\* lines 288-290
SkipQuery ==
    /\ pc = "loop"
    /\ Here \in Positions
    /\ Skipped(Here)
    /\ bi' = bi + 1
    /\ UNCHANGED <<fs, dirs, scan, now, inflight, pc, si, sess, outcome, trace, pipeVars>>

\* what main does when the query at Here raised: print, continue
Ended(result, cause, calls) ==
    [pos |-> Here, result |-> result, ended |-> cause, exports |-> sess.exports,
     iters |-> sess.iters, nextFound |-> sess.nextFound, moves |-> calls,
     combines |-> calls]

QueryRaised(cause) ==
    /\ outcome' = [outcome EXCEPT ![Here] = [started |-> 1, result |-> "failed"]]
    /\ sess' = NoSession
    /\ IF after_query_exception = "loop"
       THEN /\ pc' = "loop"
            /\ si' = NextPos(Here)[1]
            /\ bi' = NextPos(Here)[2]
       ELSE /\ pc' = after_query_exception
            /\ UNCHANGED <<si, bi>>

\* lines 292-295 and 308-311: driver.get before the query; on success
\* download_and_process_data is entered
Navigate ==
    /\ pc = "loop"
    /\ Here \in Positions
    /\ ~Skipped(Here)
    /\ \E ok \in BOOLEAN :
        /\ trace' = [trace EXCEPT !.navFailed = @ \/ ~ok,
                                  !.startedAfterNavFail = @ \/ trace.navFailed,
                                  !.last = IF ok THEN NoLast
                                           ELSE Ended("failed", "navigation", 0)]
        /\ IF ok
           THEN /\ pc' = "session"
                /\ sess' = [NoSession EXCEPT !.pc = "Setup"]
                /\ outcome' = [outcome EXCEPT ![Here].started = @ + 1]
                /\ UNCHANGED <<si, bi>>
           ELSE QueryRaised("navigation")
    /\ UNCHANGED <<fs, dirs, scan, now, inflight, pipeVars>>

\* lines 167-191: select the business type and the state, submit
Setup ==
    /\ pc = "session"
    /\ sess.pc = "Setup"
    /\ \/ sess' = [sess EXCEPT !.pc = "AwaitingExport", !.page_number = 1, !.shown = 1]
       \/ \E step \in SetupSteps(BusinessAt(Here)) :
            sess' = [sess EXCEPT !.pc = after_setup_exception, !.ended = step]
    /\ UNCHANGED <<fs, dirs, scan, now, inflight, pc, si, bi, outcome, trace, pipeVars>>

\* an exception inside the while loop's try, caught at line 226
LoopException(cause) == [sess EXCEPT !.pc = after_loop_exception, !.ended = cause]

\* lines 196-200: settle, wait for the export link, click it (the browser
\* starts a download; one that was still unfinished is given up)
Export ==
    /\ pc = "session"
    /\ sess.pc = "AwaitingExport"
    /\ \/ /\ sess' = [sess EXCEPT !.pc = "AwaitingFile", !.iters = @ + 1]
          /\ inflight' = [q |-> QueryId(Here), p |-> sess.shown]
       \/ /\ sess' = [LoopException("export_link") EXCEPT !.iters = @ + 1]
          /\ UNCHANGED inflight
    /\ UNCHANGED <<fs, dirs, scan, now, pc, si, bi, outcome, trace, pipeVars>>

\* lines 202-204: the wait ends at once when data.csv is there, and by
\* timeout when it has not appeared
AwaitFile ==
    /\ pc = "session"
    /\ sess.pc = "AwaitingFile"
    /\ sess' = IF Exists(fs, <<Root, DataCsv>>)
               THEN [sess EXCEPT !.pc = "Renaming"]
               ELSE LoopException("raw_file")
    /\ UNCHANGED <<fs, dirs, scan, now, inflight, pc, si, bi, outcome, trace, pipeVars>>

\* line 205.  The sleeps of lines 196, 211 and 223 (and of 294, 310 before
\* another session) put more than a second between two renames: the clock
\* ticks once per rename.
Rename ==
    /\ pc = "session"
    /\ sess.pc = "Renaming"
    /\ IF rename_raises(fs, StateAt(Here), BusinessAt(Here), sess.page_number, now)
       THEN /\ sess' = LoopException("rename")
            /\ UNCHANGED <<fs, now>>
       ELSE /\ fs' = rename_downloaded_file(fs, StateAt(Here), BusinessAt(Here),
                                            sess.page_number, now)
            /\ sess' = [sess EXCEPT !.pc = "AwaitingNextPage",
                          !.exports = IF Exists(fs, <<Root, DataCsv>>) THEN @ + 1 ELSE @]
            /\ now' = now + 1
    /\ UNCHANGED <<dirs, scan, inflight, pc, si, bi, outcome, trace, pipeVars>>

\* lines 207-224: wait for the next-page control, click it, page_number += 1.
\* The portal has a next page only below MaxPages.
NextPage ==
    /\ pc = "session"
    /\ sess.pc = "AwaitingNextPage"
    /\ \/ /\ sess.shown < MaxPages
          /\ sess' = [sess EXCEPT !.pc = "AwaitingStale", !.page_number = @ + 1,
                                  !.nextFound = TRUE]
       \/ sess' = LoopException("next_control")
    /\ UNCHANGED <<fs, dirs, scan, now, inflight, pc, si, bi, outcome, trace, pipeVars>>

\* line 225: wait until the old next-page control is stale
Stale ==
    /\ pc = "session"
    /\ sess.pc = "AwaitingStale"
    /\ \/ sess' = [sess EXCEPT !.pc = "AwaitingExport", !.shown = @ + 1]
       \/ sess' = LoopException("staleness")
    /\ UNCHANGED <<fs, dirs, scan, now, inflight, pc, si, bi, outcome, trace, pipeVars>>

\* lines 230-231, then line 296: move, combine, return, "Completed processing"
FinishSession ==
    /\ pc = "session"
    /\ sess.pc = "Terminated"
    /\ LET moved == move_files_to_directory(fs, scan, StateAt(Here), BusinessAt(Here))
       IN  fs' = combine_csv_files(moved, scan, now, StateAt(Here), BusinessAt(Here))
    /\ dirs' = dirs \cup {target_directory(StateAt(Here), BusinessAt(Here))}
    /\ outcome' = [outcome EXCEPT ![Here].result = "completed"]
    /\ trace' = [trace EXCEPT !.last = Ended("completed", sess.ended, 1)]
    /\ sess' = NoSession
    /\ pc' = "loop"
    /\ si' = NextPos(Here)[1]
    /\ bi' = NextPos(Here)[2]
    /\ UNCHANGED <<scan, now, inflight, pipeVars>>

\* lines 233-235 re-raise; lines 297-299 / 313-315 catch, print and continue
Propagate ==
    /\ pc = "session"
    /\ sess.pc = "Raised"
    /\ QueryRaised(sess.ended)
    /\ trace' = [trace EXCEPT !.last = Ended("failed", sess.ended, 0)]
    /\ UNCHANGED <<fs, dirs, scan, now, inflight, pipeVars>>

\* lines 301-303: after the business types of a filtered state
Consolidate ==
    /\ pc = "loop"
    /\ si <= NF
    /\ bi > NB
    /\ fs' = consolidate_state_files(fs, dirs, scan, now, business_filtered_states[si])
    /\ si' = si + 1
    /\ bi' = IF si + 1 <= NF THEN 1 ELSE 0
    /\ trace' = [trace EXCEPT !.consolidated[si] = @ + 1]
    /\ UNCHANGED <<dirs, scan, now, inflight, pc, sess, outcome, pipeVars>>

\* line 317, and the outer except of line 318 (reached by an exception outside
\* the per-query try): on to the finally clause
EndLoops ==
    /\ \/ pc = "loop" /\ si > NF + NO
       \/ pc = "abort"
    /\ pc' = "closing"
    /\ UNCHANGED <<fs, dirs, scan, now, inflight, si, bi, sess, outcome, trace, pipeVars>>

\* lines 320-322: the closing prompt, driver.quit()
Quit ==
    /\ pc = "closing"
    /\ pc' = "quit"
    /\ inflight' = NoDownload
    /\ UNCHANGED <<fs, dirs, scan, now, si, bi, sess, outcome, trace, pipeVars>>

\* the browser finishes a download: it writes data.csv into the download
\* directory, whatever the script is doing
DownloadLands ==
    /\ pc \in {"loop", "session", "closing"}
    /\ inflight # NoDownload
    /\ fs' = WriteFile(fs, <<Root, DataCsv>>,
                       [rows |-> <<[q |-> inflight.q, p |-> inflight.p, i |-> 1]>>,
                        mtime |-> now, ok |-> TRUE])
    /\ inflight' = NoDownload
    /\ UNCHANGED <<dirs, scan, now, pc, si, bi, sess, outcome, trace, pipeVars>>

Next ==
    \/ OpenPortal
    \/ SkipQuery
    \/ Navigate
    \/ Setup
    \/ Export
    \/ AwaitFile
    \/ Rename
    \/ NextPage
    \/ Stale
    \/ FinishSession
    \/ Propagate
    \/ Consolidate
    \/ EndLoops
    \/ Quit
    \/ DownloadLands

Spec == Init /\ [][Next]_vars

\* The download directory is an ordinary directory: between the wait of lines
\* 202-204 and the os.path.exists of line 50 the raw file can be taken away
\* (by the user or another program).  The run with that step added, for the
\* sessions of the unfiltered states:
RawFileVanishes ==
    /\ pc = "session"
    /\ Here[1] > NF
    /\ sess.pc = "Renaming"
    /\ Exists(fs, <<Root, DataCsv>>)
    /\ fs' = [path \in DOMAIN fs \ {<<Root, DataCsv>>} |-> fs[path]]
    /\ UNCHANGED <<dirs, scan, now, inflight, pc, si, bi, sess, outcome, trace, pipeVars>>

NextVanish == Next \/ RawFileVanishes

SpecVanish == Init /\ [][NextVanish]_vars

-----------------------------------------------------------------------------
(* The file pipeline called directly, on any captured pages: the queries,  *)
(* page numbers and file conditions are inputs.  State names include one   *)
(* that is the beginning of another.                                       *)

PipeStates == [k \in 1..Len(PipeQueries) |-> PipeQueries[k].state]

\* a captured page: with two rows, or unreadable
PipeConditions == {"rows", "unreadable"}

PipeRows(k, p, cond) ==
    IF cond = "rows" THEN <<[q |-> k, p |-> p, i |-> 1], [q |-> k, p |-> p, i |-> 2]>>
    ELSE <<>>

IsOutput(name) == IsSuffix(CombinedSuffix, name) \/ IsSuffix(ConsolidatedSuffix, name)

CapturedPages(f) == {path \in DOMAIN f : ~IsOutput(path[2])}

\* the page files of a query in its directory, with their contents
PageSnapshot(f, state_name, business_type) ==
    LET sf      == formatted[state_name]
        bf      == business_formatted(business_type)
        dir     == directory_name(sf, bf)
        pattern == pattern_prefix(sf, bf)
        output  == combined_name(sf, bf)
        names   == {n \in FilesIn(f, dir) :
                       GlobMatch(pattern, DotCsv, n) /\ n # output}
    IN  [n \in names |-> f[<<dir, n>>]]

\* everything under the download directory but the state's consolidated file
ConsolidateSnapshot(f, ds, consolidated_file_path) ==
    <<ds, [path \in DOMAIN f \ {consolidated_file_path} |-> f[path]]>>

RowsAt(f, path) == IF Exists(f, path) THEN f[path].rows ELSE <<>>

InitPipe ==
    /\ fs = <<>>
    /\ dirs = {}
    /\ scan \in ScanOrders
    /\ now = 1
    /\ inflight = NoDownload
    /\ pc = "pipe"
    /\ si = 0
    /\ bi = 0
    /\ sess = NoSession
    /\ outcome = [pos \in Positions |-> NoOutcome]
    /\ trace = NoTrace
    /\ lastRun = NoRun

mainVars == <<inflight, pc, si, bi, sess, outcome, trace>>

\* the queries that have captured pages, and the page numbers captured
QueriesCaptured(f) ==
    {k \in 1..Len(PipeQueries) :
        PageSnapshot(f, PipeQueries[k].state, PipeQueries[k].business_type) # <<>>}

PagesCaptured(f, k) ==
    {page_sort_key(n) :
        n \in DOMAIN PageSnapshot(f, PipeQueries[k].state, PipeQueries[k].business_type)}

\* One page is captured for query k: data.csv appears, is renamed (line 205)
\* and moved into the query's directory (line 230).  As in main, the queries
\* come one after the other, the page numbers of a query go up, and all of it
\* happens before the calls below.  For a query without a business type the
\* page number is not used.
PipeCaptureOf(conditions) ==
    /\ lastRun = NoRun
    /\ Cardinality(CapturedPages(fs)) < MaxPipeFiles
    /\ \E k \in 1..Len(PipeQueries), cond \in conditions :
       \E p \in IF PipeQueries[k].business_type # None THEN PipePages ELSE {now} :
        LET st   == PipeQueries[k].state
            bt   == PipeQueries[k].business_type
            raw  == WriteFile(fs, <<Root, DataCsv>>,
                              [rows |-> PipeRows(k, p, cond), mtime |-> now,
                               ok |-> cond # "unreadable"])
        IN  /\ \A j \in QueriesCaptured(fs) : j <= k
            /\ bt # None => \A n \in PagesCaptured(fs, k) : n < p
            /\ fs' = move_files_to_directory(
                         rename_downloaded_file(raw, st, bt, p, now), scan, st, bt)
            /\ dirs' = dirs \cup {target_directory(st, bt)}
    /\ now' = now + 1
    /\ UNCHANGED <<scan, lastRun, mainVars>>

PipeCapture == PipeCaptureOf(PipeConditions)

\* the files among paths that pd.read_csv raises on
Unreadable(f, paths) == {paths[i] : i \in {j \in 1..Len(paths) : ~f[paths[j]].ok}}

\* combine_csv_files(download_directory, state, business_type), for combined
\* tables of at most MaxPipeRows rows
PipeCombine ==
    \E k \in 1..Len(PipeQueries) :
        LET st   == PipeQueries[k].state
            bt   == PipeQueries[k].business_type
            snap == PageSnapshot(fs, st, bt)
            run  == combine_run(fs, scan, now, st, bt)
            out  == run.out
        IN  /\ Len(run.rows) <= MaxPipeRows
            /\ fs' = run.fs
            /\ lastRun' =
                 [op     |-> "combine",
                  key    |-> k,
                  inputs |-> snap,
                  found  |-> run.found,
                  read   |-> run.read,
                  failed |-> Unreadable(fs, [i \in 1..Len(run.read) |->
                                                <<out[1], run.read[i]>>]),
                  out    |-> RowsAt(run.fs, out),
                  rerun  |-> /\ lastRun.op = "combine"
                             /\ lastRun.key = k
                             /\ lastRun.inputs = snap,
                  prev   |-> RowsAt(fs, out)]
    /\ UNCHANGED <<dirs, scan, now, mainVars>>

\* consolidate_state_files(download_directory, state), for consolidated
\* tables of at most MaxPipeRows rows
PipeConsolidate ==
    \E s \in 1..Len(PipeStates) :
        LET run  == consolidate_run(fs, dirs, scan, now, PipeStates[s])
            out  == run.out
            snap == ConsolidateSnapshot(fs, dirs, out)
        IN  /\ Len(run.rows) <= MaxPipeRows
            /\ fs' = run.fs
            /\ lastRun' =
                 [op     |-> "consolidate",
                  key    |-> s,
                  inputs |-> snap,
                  found  |-> run.found,
                  read   |-> run.read,
                  failed |-> Unreadable(fs, run.read),
                  out    |-> RowsAt(run.fs, out),
                  rerun  |-> /\ lastRun.op = "consolidate"
                             /\ lastRun.key = s
                             /\ lastRun.inputs = snap,
                  prev   |-> RowsAt(fs, out)]
    /\ UNCHANGED <<dirs, scan, now, mainVars>>

NextPipe ==
    \/ PipeCapture
    \/ PipeCombine
    \/ PipeConsolidate

SpecPipe == InitPipe /\ [][NextPipe]_vars

-----------------------------------------------------------------------------
(* The file pipeline on files that go bad after they were written: pages   *)
(* are captured readable, and one page file or combined file at a time     *)
(* becomes unreadable (pd.read_csv raises on it) before a call.            *)

PipeCaptureReadable ==
    /\ Cardinality(CapturedPages(fs)) < MaxReadFiles
    /\ PipeCaptureOf({"rows"})

PipeDamage ==
    /\ \A path \in DOMAIN fs : fs[path].ok
    /\ \E path \in DOMAIN fs :
        /\ ~IsSuffix(ConsolidatedSuffix, path[2])
        /\ fs' = [fs EXCEPT ![path].ok = FALSE]
        /\ lastRun' = [op |-> "damage", path |-> path]
    /\ UNCHANGED <<dirs, scan, now, mainVars>>

NextRead ==
    \/ PipeCaptureReadable
    \/ PipeDamage
    \/ PipeCombine
    \/ PipeConsolidate

SpecRead == InitPipe /\ [][NextRead]_vars

(***************************************************************************)
(* format_filename on its own: the input is any text of up to MaxTextLen   *)
(* characters, one of each kind the function tells apart (space, '&',      *)
(* another stripped character, underscore, letter, digit); it is applied   *)
(* to the text and then to its own result.                                 *)
(***************************************************************************)
FormatChars == {" ", "&", "(", "_", "n", "7"}

RECURSIVE TextsOfLen(_)
TextsOfLen(n) ==
    IF n = 0 THEN {<<>>}
    ELSE {<<c>> \o t : c \in FormatChars, t \in TextsOfLen(n - 1)}

FormatTexts == UNION {TextsOfLen(n) : n \in 0..MaxTextLen}

InitFormat ==
    /\ fs = <<>>
    /\ dirs = {}
    /\ scan = [desc |-> FALSE]
    /\ now = 1
    /\ inflight = NoDownload
    /\ pc = "format"
    /\ si = 0
    /\ bi = 0
    /\ sess = NoSession
    /\ outcome = [pos \in Positions |-> NoOutcome]
    /\ trace = NoTrace
    /\ \E text \in FormatTexts : lastRun = [op |-> "text", text |-> text]

FormatOnce ==
    /\ lastRun.op = "text"
    /\ lastRun' = [op |-> "formatted", text |-> lastRun.text,
                   once |-> format_filename(lastRun.text)]
    /\ UNCHANGED <<fs, dirs, scan, now, mainVars>>

FormatAgain ==
    /\ lastRun.op = "formatted"
    /\ lastRun' = [op |-> "reformatted", text |-> lastRun.text,
                   once |-> lastRun.once, twice |-> format_filename(lastRun.once)]
    /\ UNCHANGED <<fs, dirs, scan, now, mainVars>>

NextFormat == FormatOnce \/ FormatAgain

SpecFormat == InitFormat /\ [][NextFormat]_vars

-----------------------------------------------------------------------------
(* Claims about the session and the orchestrator (checked under Spec) *)

LoopCauses == {"export_link", "raw_file", "next_control", "staleness"}

SetupCauses == {"category_tab", "business_select", "location_tab",
                "state_select", "submit"}

\* page files of the query at pos that lie in directory dir
PageFilesAt(pos, dir) ==
    LET pattern == file_pattern(StateAt(pos), BusinessAt(pos))
        output  == output_filename(StateAt(pos), BusinessAt(pos))
    IN  {n \in FilesIn(fs, dir) : GlobMatch(pattern, DotCsv, n) /\ n # output}

CombinedPath(pos) ==
    <<target_directory(StateAt(pos), BusinessAt(pos)),
      output_filename(StateAt(pos), BusinessAt(pos))>>

PosBefore(a, b) == a[1] < b[1] \/ (a[1] = b[1] /\ a[2] < b[2])

\* C1: a session whose page-1 export produced the raw file and whose
\* next-page control was never found has made exactly one export, page 1 under
\* its canonical name, in exactly one iteration, and is Terminated; without the
\* next-page control no second iteration starts.
C1_OneExportThenTerminated ==
    /\ (pc = "session" /\ sess.ended = "next_control" /\ ~sess.nextFound) =>
          /\ sess.pc = "Terminated"
          /\ sess.exports = 1
          /\ sess.iters = 1
          /\ sess.page_number = 1
          /\ Exists(fs, rename_target(StateAt(Here), BusinessAt(Here), 1, now - 1))
    /\ (pc = "session" /\ ~sess.nextFound) => sess.iters <= 1
    /\ (trace.last.ended = "next_control" /\ ~trace.last.nextFound) =>
          /\ trace.last.result = "completed"
          /\ trace.last.exports = 1
          /\ trace.last.iters = 1

C1_Witness ==
    /\ pc = "session"
    /\ sess.pc = "Terminated"
    /\ sess.ended = "next_control"
    /\ ~sess.nextFound
    /\ sess.exports = 1
    /\ BusinessAt(Here) = None

\* C2: a query that raised (in its session or in the navigation before it) is
\* recorded and the loops go on: no query is started twice, the skipped pair is
\* never started, every query before the one main is at has been started, and
\* when the loops are over every non-skipped query has been started once.
C2_SiblingsStarted ==
    /\ \A pos \in Positions :
          /\ outcome[pos].started <= 1
          /\ Skipped(pos) => outcome[pos].started = 0
          /\ outcome[pos].result # "none" => outcome[pos].started = 1
    /\ pc \in {"loop", "session"} =>
          \A pos \in Positions :
              (PosBefore(pos, Here) /\ ~Skipped(pos)) =>
                  (outcome[pos].started = 1 /\ outcome[pos].result # "none")
    /\ pc \in {"closing", "quit", "abort"} =>
          \A pos \in Positions : ~Skipped(pos) => outcome[pos].started = 1

C2_Witness ==
    /\ pc = "closing"
    /\ outcome[<<1, 2>>].result = "failed"
    /\ outcome[<<2, 1>>].result = "failed"
    /\ outcome[<<2, 2>>].result = "completed"
    /\ outcome[<<NF + 1, 0>>].result = "completed"

\* C3 (as claimed): once a navigation to the entry point has failed, no
\* further query is started and the program does not end without driver.quit.
C3_NavFailureStopsRunAndQuits ==
    trace.navFailed => (~trace.startedAfterNavFail /\ pc # "crashed")

\* C4: a control-not-found or timeout inside the pagination loop does not
\* propagate: the session is Terminated, move and combine run once each on
\* the pages captured so far, and main records the query as completed.
C4_LoopFailureCompletes ==
    /\ (pc = "session" /\ sess.ended \in LoopCauses) => sess.pc = "Terminated"
    /\ trace.last.ended \in LoopCauses =>
          LET pos == trace.last.pos
              dir == target_directory(StateAt(pos), BusinessAt(pos))
          IN  /\ trace.last.result = "completed"
              /\ outcome[pos].result = "completed"
              /\ trace.last.moves = 1
              /\ trace.last.combines = 1
              /\ dir \in dirs
              /\ PageFilesAt(pos, Root) = {}
              /\ Cardinality(PageFilesAt(pos, dir)) = trace.last.exports
              /\ Exists(fs, CombinedPath(pos)) <=> trace.last.exports > 0
              /\ Exists(fs, CombinedPath(pos)) =>
                    Len(fs[CombinedPath(pos)].rows) = trace.last.exports

C4_Witness ==
    /\ trace.last.ended = "raw_file"
    /\ trace.last.result = "completed"
    /\ trace.last.exports = 1
    /\ trace.last.iters = 2

\* C5: a failure in Setup is a failure of that query only: nothing is
\* exported, renamed, moved or combined for it, main records it as failed and
\* goes on.
C5_SetupFailureIsolated ==
    /\ (pc = "session" /\ sess.ended \in SetupCauses) =>
          /\ sess.pc = "Raised"
          /\ sess.iters = 0
          /\ sess.exports = 0
    /\ trace.last.ended \in SetupCauses =>
          LET pos == trace.last.pos
          IN  /\ trace.last.result = "failed"
              /\ outcome[pos].result = "failed"
              /\ trace.last.iters = 0
              /\ trace.last.exports = 0
              /\ trace.last.moves = 0
              /\ trace.last.combines = 0
              /\ target_directory(StateAt(pos), BusinessAt(pos)) \notin dirs
              /\ ~Exists(fs, CombinedPath(pos))
              /\ pc \in {"loop", "session", "closing", "quit"}

C5_Witness ==
    /\ trace.last.ended = "business_select"
    /\ trace.last.result = "failed"
    /\ pc = "loop"
    /\ Here = NextPos(trace.last.pos)
    /\ Here \in Positions

-----------------------------------------------------------------------------
(* Claims about the file pipeline (checked under SpecPipe).  lastRun holds  *)
(* the latest call: its inputs, the files it found and read, the rows at    *)
(* its output path after it (out) and before it (prev), and whether the     *)
(* call before it was the same call on the same inputs (rerun).             *)

CombineOfFiltered ==
    lastRun.op = "combine" /\ PipeQueries[lastRun.key].business_type # None

CombineOfUnfiltered ==
    lastRun.op = "combine" /\ PipeQueries[lastRun.key].business_type = None

RowSet(rows) == {rows[i] : i \in 1..Len(rows)}

\* the rows of the readable page files of a snapshot
ReadableRows(inputs) ==
    UNION {RowSet(inputs[n].rows) : n \in {m \in DOMAIN inputs : inputs[m].ok}}

\* C6: combine_csv_files run a second time for the same query on unchanged
\* page files leaves a combined file with the same rows in the same order,
\* with and without a business type.
C6_CombineIdempotent ==
    (lastRun.op = "combine" /\ lastRun.rerun) => lastRun.out = lastRun.prev

\* C7: consolidate_state_files run a second time for the same state on the
\* same combined files leaves the same rows in the same order, and the second
\* run reads no file of the download directory itself (the consolidated file
\* of the first run is there).
C7_ConsolidateIdempotent ==
    (lastRun.op = "consolidate" /\ lastRun.rerun) =>
        /\ lastRun.out = lastRun.prev
        /\ \A i \in 1..Len(lastRun.read) : lastRun.read[i][1] # Root

\* a second run whose glob matched a file of the download directory next to
\* two directories, each with a combined file that was read
C7_Witness ==
    /\ lastRun.op = "consolidate"
    /\ lastRun.rerun
    /\ Len(lastRun.read) = 2
    /\ Len(lastRun.out) = 4
    /\ \E i \in 1..Len(lastRun.found) : lastRun.found[i] \notin dirs

\* C8: the rows consolidate_state_files writes for state S come from queries
\* of state S only.
C8_OnlyRowsOfState ==
    lastRun.op = "consolidate" =>
        \A i \in 1..Len(lastRun.out) :
            PipeQueries[lastRun.out[i].q].state = PipeStates[lastRun.key]

\* C9: for a query with a business type, combine_csv_files reads the page
\* files in ascending numeric page number whatever order glob found them in,
\* and the combined rows are the rows of the readable page files, block after
\* block in that order.
C9_PagesAscending ==
    CombineOfFiltered =>
        /\ RowSet(lastRun.read) = RowSet(lastRun.found)
        /\ Len(lastRun.read) = Len(lastRun.found)
        /\ \A i, j \in 1..Len(lastRun.read) :
               i < j => page_sort_key(lastRun.read[i]) < page_sort_key(lastRun.read[j])
        /\ RowSet(lastRun.out) = ReadableRows(lastRun.inputs)
        /\ Len(lastRun.out) = Cardinality(ReadableRows(lastRun.inputs))
        /\ \A i, j \in 1..Len(lastRun.out) :
               i < j => \/ lastRun.out[i].p < lastRun.out[j].p
                        \/ /\ lastRun.out[i].p = lastRun.out[j].p
                           /\ lastRun.out[i].i < lastRun.out[j].i

\* pages found as 10, 2, 9 and combined as 2, 9, 10
C9_Witness ==
    /\ CombineOfFiltered
    /\ [i \in 1..Len(lastRun.found) |-> page_sort_key(lastRun.found[i])] = <<10, 2, 9>>
    /\ [i \in 1..Len(lastRun.out) |-> lastRun.out[i].p] = <<2, 2, 9, 9, 10, 10>>

\* C10: for a query without a business type, the rows of a page file captured
\* later precede the rows of a page file captured earlier in the combined
\* file (the p of a row is the time its page was captured).
C10_LaterCaptureFirst ==
    CombineOfUnfiltered =>
        \A i, j \in 1..Len(lastRun.out) :
            i < j => lastRun.out[i].p >= lastRun.out[j].p

LastCombinedPath ==
    <<target_directory(PipeQueries[lastRun.key].state,
                       PipeQueries[lastRun.key].business_type),
      output_filename(PipeQueries[lastRun.key].state,
                      PipeQueries[lastRun.key].business_type)>>

LastConsolidatedPath ==
    <<Root, consolidated_filename(formatted[PipeStates[lastRun.key]])>>

\* C11: combine_csv_files that found no page file leaves no combined file,
\* consolidate_state_files that read no combined file leaves no consolidated
\* file, and no combined or consolidated file has zero rows.
C11_NoEmptyOutput ==
    /\ \A path \in DOMAIN fs : IsOutput(path[2]) => fs[path].rows # <<>>
    /\ (lastRun.op = "combine" /\ lastRun.found = <<>>) =>
           ~Exists(fs, LastCombinedPath)
    /\ (lastRun.op = "consolidate" /\ lastRun.read = <<>>) =>
           ~Exists(fs, LastConsolidatedPath)

\* a consolidate that matched a directory holding page files but no combined
\* file
C11_Witness ==
    /\ lastRun.op = "consolidate"
    /\ lastRun.found # <<>>
    /\ lastRun.read = <<>>
    /\ fs # <<>>
    /\ ~Exists(fs, LastConsolidatedPath)

\* C12: consolidate_state_files reads only files named *_combined.csv inside
\* the matched sub-directories, and no row appears twice in what it writes.
C12_CombinedOnlyAndOnce ==
    lastRun.op = "consolidate" =>
        /\ \A i \in 1..Len(lastRun.read) :
               /\ lastRun.read[i][1] \in dirs
               /\ IsSuffix(CombinedSuffix, lastRun.read[i][2])
        /\ \A i, j \in 1..Len(lastRun.out) :
               i # j => lastRun.out[i] # lastRun.out[j]

-----------------------------------------------------------------------------
(* Claims about read failures (checked under SpecRead) *)

\* the paths the latest call read, in the order it read them
LastReadPaths ==
    IF lastRun.op = "combine"
    THEN [i \in 1..Len(lastRun.read) |-> <<LastCombinedPath[1], lastRun.read[i]>>]
    ELSE lastRun.read

LastOutputPath ==
    IF lastRun.op = "combine" THEN LastCombinedPath ELSE LastConsolidatedPath

\* the rows a file held when the latest call read it: only the call's own
\* output file has changed since
RowsWhenRead(path) == IF path = LastOutputPath THEN lastRun.prev ELSE fs[path].rows

\* C13: in combine_csv_files and in consolidate_state_files the files that
\* cannot be read are left out, every other file found is read, and what is
\* written is the rows of the readable files in the order they were read.
C13_ReadFailureIsolated ==
    lastRun.op \in {"combine", "consolidate"} =>
        LET readable == SelectSeq(LastReadPaths, LAMBDA path : path \notin lastRun.failed)
            expected == Concat([i \in 1..Len(readable) |-> RowsWhenRead(readable[i])])
        IN  /\ expected # <<>> => lastRun.out = expected
            /\ expected = <<>> => lastRun.out = lastRun.prev

\* consolidate_state_files read two combined files, the first of them
\* unreadable, and wrote the rows of the second
C13_Witness ==
    /\ lastRun.op = "consolidate"
    /\ Len(lastRun.read) = 2
    /\ lastRun.failed = {lastRun.read[1]}
    /\ lastRun.out = fs[lastRun.read[2]].rows
    /\ lastRun.out # <<>>

(***************************************************************************)
(* Claims about format_filename (checked under SpecFormat) *)
(***************************************************************************)
OnlyAlnumOrUnderscore(text) ==
    \A i \in 1..Len(text) : IsAlnum(text[i]) \/ text[i] = "_"

\* C14: formatting a formatted text gives the same text back, and a
\* formatted text holds only alphanumeric characters and underscores
C14_FormatIdempotent ==
    /\ lastRun.op \in {"formatted", "reformatted"} => OnlyAlnumOrUnderscore(lastRun.once)
    /\ lastRun.op = "reformatted" => lastRun.twice = lastRun.once

\* a text with a space, an '&' and a stripped character, formatted twice
C14_Witness ==
    /\ lastRun.op = "reformatted"
    /\ lastRun.text = <<" ", "&", "(">>
    /\ lastRun.once = <<"_", "a", "n", "d">>

(***************************************************************************)
(* Claims about the order of main's work (checked under Spec) *)
(***************************************************************************)
\* the query at pos was attempted: navigated to, with or without success
Attempted(pos) == outcome[pos].started > 0 \/ outcome[pos].result # "none"

\* the query at pos is over: skipped, completed or failed
Over(pos) == Skipped(pos) \/ outcome[pos].result \in {"completed", "failed"}

\* C15: consolidate_state_files runs at most once per filtered state and,
\* when the loops are through, exactly once; when it has run for a state every
\* business type of that state is over (completed, failed or skipped); a query
\* is attempted only when every filtered state before its state has been
\* consolidated, so all filtered states come before the unfiltered ones; it
\* never runs for an unfiltered state
C15_ConsolidateOncePerFilteredState ==
    /\ \A s \in 1..NF : trace.consolidated[s] <= 1
    /\ \A s \in 1..NF :
            trace.consolidated[s] = 1 => \A b \in 1..NB : Over(<<s, b>>)
    /\ \A pos \in Positions :
            Attempted(pos) => \A s \in 1..NF : s < pos[1] => trace.consolidated[s] = 1
    /\ \A s \in (NF + 1)..(NF + NO) : trace.consolidated[s] = 0
    /\ pc \in {"closing", "quit"} => \A s \in 1..NF : trace.consolidated[s] = 1

\* every business type of the second filtered state failed, the state was
\* consolidated, and the first unfiltered state has not been attempted yet
C15_Witness ==
    /\ \A b \in 1..NB : outcome[<<NF, b>>].result = "failed"
    /\ trace.consolidated[NF] = 1
    /\ pc = "loop"
    /\ Here = <<NF + 1, 0>>
    /\ ~Attempted(<<NF + 1, 0>>)

(***************************************************************************)
(* Claims about the page files of a run (checked under Spec) *)
(***************************************************************************)
\* C16: when the raw file is about to be renamed, the page number is the
\* number of the loop iteration (1, 2, 3, ...) and no file of the run, in any
\* directory, bears the new name; so the session has one page file per
\* successful rename
C16_RenameTargetFresh ==
    pc = "session" =>
        /\ sess.pc = "Renaming" =>
                /\ sess.page_number = sess.iters
                /\ \A path \in DOMAIN fs :
                        path[2] # rename_target(StateAt(Here), BusinessAt(Here),
                                                sess.page_number, now)[2]
        /\ Cardinality(PageFilesAt(Here, Root)) = sess.exports

\* the second page of an unfiltered query has been renamed: two page files
\* with different timestamps
C16_Witness ==
    /\ pc = "session"
    /\ Here = <<NF + 1, 0>>
    /\ sess.pc = "AwaitingNextPage"
    /\ sess.exports = 2
    /\ Cardinality(PageFilesAt(Here, Root)) = 2

\* a file under its final path: a page file or combined file in a query
\* directory, or a consolidated file
IsFinal(path) == path[1] # Root \/ IsSuffix(ConsolidatedSuffix, path[2])

\* C17: a file under its final path stays there with its content and time
\* through every later step of the run, and the move at the end of a session
\* takes nothing out of the download directory but page files of its query and
\* puts nothing anywhere but into that query's directory
C17_WriteOnce ==
    [][/\ \A path \in DOMAIN fs :
              IsFinal(path) => path \in DOMAIN fs' /\ fs'[path] = fs[path]
       /\ (pc = "session" /\ sess.pc = "Terminated" /\ pc' = "loop") =>
              /\ \A path \in DOMAIN fs \ DOMAIN fs' :
                     path[1] = Root /\ path[2] \in PageFilesAt(Here, Root)
              /\ \A path \in DOMAIN fs' \ DOMAIN fs :
                     path[1] = target_directory(StateAt(Here), BusinessAt(Here))]_vars

\* the first state's consolidated file and a combined file are in place, and
\* the unfiltered query after them has moved and combined its own page
C17_Witness ==
    /\ Exists(fs, <<Root, consolidated_filename(formatted[StateAt(<<1, NB>>)])>>)
    /\ Exists(fs, CombinedPath(<<1, NB>>))
    /\ outcome[<<NF + 1, 0>>].result = "completed"
    /\ Exists(fs, CombinedPath(<<NF + 1, 0>>))
    /\ PageFilesAt(<<NF + 1, 0>>, CombinedPath(<<NF + 1, 0>>)[1]) # {}

(***************************************************************************)
(* Claims about a raw file that is gone at the rename (checked under       *)
(* SpecVanish)                                                             *)
(***************************************************************************)
\* C18: the step of a session that stands at the rename without a raw file
\* changes no file, counts no export, records no exception and leaves the
\* session waiting for the next-page control
C18_AbsentRawFileSkipped ==
    [][(pc = "session" /\ sess.pc = "Renaming" /\ ~Exists(fs, <<Root, DataCsv>>)
            /\ sess' # sess) =>
          /\ fs' = fs
          /\ pc' = "session"
          /\ sess' = [sess EXCEPT !.pc = "AwaitingNextPage"]
          /\ sess'.ended = "none"]_vars

\* a first iteration whose raw file was gone at the rename: no export, no
\* page file, and the session waits for the next-page control
C18_Witness ==
    /\ pc = "session"
    /\ sess.pc = "AwaitingNextPage"
    /\ sess.iters = 1
    /\ sess.exports = 0
    /\ PageFilesAt(Here, Root) = {}

(***************************************************************************)
(* Claims about the browser's download and the script (checked under Spec) *)
(***************************************************************************)
\* the directories a page file of the query at pos can lie in
PageDirs(pos) == {Root, target_directory(StateAt(pos), BusinessAt(pos))}

\* C19: every page file named for a query holds the rows served for that
\* query, and a page file named for page n of a filtered query holds the
\* rows of its page n
C19_RenamedFileIsOwnExport ==
    \A pos \in Positions : \A dir \in PageDirs(pos) : \A n \in PageFilesAt(pos, dir) :
        \A k \in 1..Len(fs[<<dir, n>>].rows) :
            LET row == fs[<<dir, n>>].rows[k]
            IN  /\ row.q = QueryId(pos)
                /\ BusinessAt(pos) # None => row.p = page_sort_key(n)

(***************************************************************************)
(* Claims about termination (checked under Spec).  Termination is stated   *)
(* by a measure: every step of the script lowers a natural number, and the *)
(* script has a step to take until it stands at the closing prompt.  Each  *)
(* step returns or raises, since every wait has a timeout (lines 197, 202, *)
(* 207, 214, 225) and every sleep ends.                                    *)
(***************************************************************************)
LoopStages == <<"AwaitingStale", "AwaitingNextPage", "Renaming", "AwaitingFile",
                "AwaitingExport">>

InLoop(session) == \E k \in 1..Len(LoopStages) : LoopStages[k] = session.pc

\* what is left of a session: the pages the portal has left, then the stage
\* of the iteration
SessionRank ==
    IF InLoop(sess)
    THEN (MaxPages - sess.shown) * Len(LoopStages)
            + (CHOOSE k \in 1..Len(LoopStages) : LoopStages[k] = sess.pc)
    ELSE IF sess.pc = "Setup" THEN MaxPages * Len(LoopStages) + 1
    ELSE 0

RankBase == MaxPages * Len(LoopStages) + 3

\* the stops of main's loops from <<si, bi>> on: the business types and the
\* consolidation of each filtered state, the unfiltered states, the end
Remaining ==
    IF si <= NF THEN (NF - si) * (NB + 1) + (NB + 2 - bi) + NO + 1
    ELSE (NF + NO + 1 - si) + 1

Rank ==
    IF pc = "session" THEN Remaining * RankBase + SessionRank
    ELSE IF pc = "loop" THEN Remaining * RankBase + RankBase - 1
    ELSE IF pc = "start" THEN (NF * (NB + 1) + NO + 3) * RankBase
    ELSE IF pc = "abort" THEN 2
    ELSE IF pc = "closing" THEN 1
    ELSE 0

ScriptVars == <<pc, si, bi, sess>>

\* the script stands where one of its steps applies (the guards of the actions)
HasNextStep ==
    \/ /\ pc = "loop"
       /\ Here \in Positions \/ (si <= NF /\ bi > NB) \/ si > NF + NO
    \/ /\ pc = "session"
       /\ InLoop(sess) \/ sess.pc \in {"Setup", "Terminated", "Raised"}

\* C20: once main's loops are entered the script always has a next step until
\* it stands at the closing prompt; every step of the script lowers Rank, a
\* natural number, so there are finitely many; and a session inside the
\* pagination loop stays in it until it is Terminated
C20_Terminates ==
    [][/\ pc' \in {"loop", "session"} => HasNextStep'
       /\ ScriptVars' # ScriptVars =>
            /\ Rank' < Rank
            /\ Rank' >= 0
            /\ (pc = "session" /\ InLoop(sess)) =>
                    pc' = "session" /\ (InLoop(sess') \/ sess'.pc = "Terminated")]_vars

\* the closing prompt after a run in which every query is over, one of them
\* completed with a second page and one failed
C20_Witness ==
    /\ pc = "closing"
    /\ \A pos \in Positions : Over(pos)
    /\ \E pos \in Positions : outcome[pos].result = "failed"
    /\ \E pos \in Positions :
            /\ outcome[pos].result = "completed"
            /\ Cardinality(PageFilesAt(pos, CombinedPath(pos)[1])) = 2

====
